---- MODULE Spec2Model ----
(***************************************************************************)
(* Model of the Socket.IO handler `ws` of liveview-backend                 *)
(* (crates/liveview-backend/src/handlers/ws.rs) and of the resolver        *)
(* `extract_metadata_url` (crates/liveview-backend/src/utils.rs).          *)
(*                                                                         *)
(* One "request" message runs one instance of the async closure of         *)
(* ws.rs:77-347.  The closure is cut at its await points: the batched call *)
(* (ws.rs:155), subscribe_logs (ws.rs:254), and, inside the spawned task,  *)
(* the select! (ws.rs:276), the tokenURI call (ws.rs:299), reqwest::get    *)
(* (ws.rs:313) and res.json (ws.rs:317).  Code between two awaits runs in  *)
(* one action.  The chain node, the metadata server and the client are     *)
(* the environment: their answers are drawn from small sets.               *)
(***************************************************************************)
EXTENDS Integers, Sequences, FiniteSets, TLC

(* ------------------------------ bounds -------------------------------- *)
\* longest `addresses` list of a request
MaxLen == 3
\* logs the upstream node delivers to one subscription
MaxLogs == 2

\* the requests of a run, numbered in order of arrival (each is one instance
\* of the closure of ws.rs:77), and the sockets connected to the namespace
Reqs == {1, 2}
Sockets == {1, 2}

\* data.rs:6-13 has six chains; every one selects a backend the same way
Chains == {"Mainnet", "Base"}
Addrs == {"A", "B"}

None == "None"

(* --------------------------- small helpers ---------------------------- *)
ToSet(s) == {s[i] : i \in DOMAIN s}

SeqsUpTo(S, n) == UNION {[1..k -> S] : k \in 0..n}

\* every order in which a set can be drained
Orders(S) ==
  {s \in [1..Cardinality(S) -> S] : \A i, j \in DOMAIN s : i # j => s[i] # s[j]}

VARIABLES
  connected,       \* socket -> the client is still connected
  handler,         \* socket -> request whose closure on_disconnect holds (0: none)
  pc,              \* request -> where its closure / task stands
  sock,            \* request -> socket it arrived on (0: not received)
  data,            \* request -> RequestData {chain, addresses}, until moved
  data_addresses,  \* request -> deduplicated addresses (ws.rs:105)
  calls,           \* request -> calls of the batch (ws.rs:128)
  multicall_res,   \* request -> returnData of the batch (ws.rs:155)
  token_data,      \* request -> descriptor cache (ws.rs:172)
  filter,          \* request -> addresses of the log filter (ws.rs:250)
  batches,         \* request -> number of batched calls made
  subs,            \* request -> number of subscribe_logs calls made
  spawned,         \* request -> number of tasks spawned
  tx_alive,        \* request -> the watch sender still exists
  changed,         \* request -> the watch holds a value rx has not seen
  stream,          \* request -> logs buffered in the subscription stream
  closed,          \* request -> the upstream closed the stream
  feed,            \* request -> every log the node delivered, in order
  cur,             \* request -> the log the task is working on, and its url
  token_uri,       \* request -> what the tokenURI call of this iteration returned
  out,             \* request -> messages its closure/task emitted on the socket
  dropped,         \* request -> positions in `out` of the messages whose
                   \*            socket.emit returned Err (channel full or closed)
  signal_at        \* request -> "setup" if the disconnect handler sent on its
                   \*            channel before its task was spawned, "task"
                   \*            if it sent after that

vars == <<connected, handler, pc, sock, data, data_addresses, calls,
          multicall_res, token_data, filter, batches, subs, spawned,
          tx_alive, changed, stream, closed, feed, cur, token_uri, out,
          dropped, signal_at>>

(* ------------------- the chain node, as the code sees it -------------- *)
\* what a contract at an address answers to the three calls of ws.rs:132-151
\*   erc721     answers all three
\*   not721     supportsInterface returns false
\*   erc20      supportsInterface reverts; name() and symbol() answer
\*   noCode     no call returns bytes that decode
\*   badName    name() returns bytes that do not decode as a string
\*   badSymbol  symbol() returns bytes that do not decode as a string
Kinds == {"erc721", "not721", "erc20", "noCode", "badName", "badSymbol"}

\* returnData is [tag |-> "bool", val], [tag |-> "string", val] or Garbage
Garbage == [tag |-> "garbage"]

NameOf(chain, addr) == <<"name", chain, addr>>
SymbolOf(chain, addr) == <<"symbol", chain, addr>>

\* Multicall::Call {target, callData}; callData is named by the function called
Call(addr, fn) == [target |-> addr, callData |-> fn]

\* the three calls pushed for one address, ws.rs:132-151
CallsFor(addr) ==
  << Call(addr, "supportsInterface"), Call(addr, "name"), Call(addr, "symbol") >>

\* mutant: the calls are pushed for the addresses in reverse order
Mut_BuildCalls(addrs) ==
  [i \in 1..(3 * Len(addrs)) |->
     CallsFor(addrs[Len(addrs) - ((i - 1) \div 3)])[((i - 1) % 3) + 1]]

\* the loop of ws.rs:128-152
RECURSIVE BuildCalls(_)
BuildCalls(addrs) ==
  IF addrs = <<>> THEN <<>>
  ELSE CallsFor(Head(addrs)) \o BuildCalls(Tail(addrs))

\* returnData of one call executed by the Multicall contract on `chain`,
\* where world[a] is the kind of contract at a
Exec(chain, world, call) ==
  LET k == world[call.target] IN
  CASE call.callData = "supportsInterface" ->
         IF k \in {"noCode", "erc20"} THEN Garbage
         ELSE IF k = "not721" THEN [tag |-> "bool", val |-> FALSE]
         ELSE [tag |-> "bool", val |-> TRUE]
    [] call.callData = "name" ->
         IF k \in {"noCode", "badName"} THEN Garbage
         ELSE [tag |-> "string", val |-> NameOf(chain, call.target)]
    [] call.callData = "symbol" ->
         IF k \in {"noCode", "badSymbol"} THEN Garbage
         ELSE [tag |-> "string", val |-> SymbolOf(chain, call.target)]

\* the batch answers every call, in the order of submission
ExecBatch(chain, world, cs) == [i \in DOMAIN cs |-> Exec(chain, world, cs[i])]

\* abi_decode_returns of a bool / of a string: Ok(value) or Err
DecodesBool(d) == d.tag = "bool"
DecodesString(d) == d.tag = "string"

(* ------------------------------- messages ----------------------------- *)
ErrorData(id, message) == [event |-> "error", id |-> id, message |-> message]

\* mutant: sender and receiver of the transfer change places
Mut_ResponseData(id, log, td, image, image_type) ==
  [event |-> "response", id |-> id, address |-> log.address,
   name |-> td.name, symbol |-> td.symbol,
   from |-> log.event.to, to |-> log.event.from,
   token_id |-> log.event.tokenId,
   image |-> image, image_type |-> image_type, log |-> log.n]

\* ResponseData of ws.rs:327-340, without block_number, transaction_hash and
\* timestamp; `log` stands for the log the message was built from
ResponseData(id, log, td, image, image_type) ==
  [event |-> "response", id |-> id, address |-> log.address,
   name |-> td.name, symbol |-> td.symbol,
   from |-> log.event.from, to |-> log.event.to,
   token_id |-> log.event.tokenId,
   image |-> image, image_type |-> image_type, log |-> log.n]

MsgNoAddresses == "No addresses provided"
\* mutant: the failed batched call is reported as an invalid address
Mut_MsgFetchFailed == "Invalid address provided"
MsgFetchFailed == "Failed to call fetch data"
MsgInvalidAddress == "Invalid address provided"
MsgSubscribeFailed == "Failed to subscribe to blocks"

(* --------------------- validation, ws.rs:172-246 ---------------------- *)
\* mutant: a probe that fails to decode counts as support
Mut_InterfaceRes(d) == IF DecodesBool(d) THEN d.val ELSE TRUE

\* interface_res of ws.rs:182-187: a decode error counts as false
InterfaceRes(d) == IF DecodesBool(d) THEN d.val ELSE FALSE

\* the loop over multicall_res.chunks(3).enumerate(), from chunk i on, with
\* the cache built so far.  Returns [ok, token_data, errors]: errors are the
\* messages emitted before the closure returned.
RECURSIVE ValidateFrom(_, _, _, _)
ValidateFrom(i, res, addrs, td) ==
  IF 3 * i > Len(res)
  THEN [ok |-> TRUE, token_data |-> td, errors |-> <<>>]
  ELSE
    LET interface_data == res[3 * i - 2]
        name_data == res[3 * i - 1]
        symbol_data == res[3 * i]
    IN IF ~InterfaceRes(interface_data)
       THEN [ok |-> FALSE, token_data |-> td, errors |-> <<MsgInvalidAddress>>]
       ELSE IF ~DecodesString(name_data)
       THEN [ok |-> FALSE, token_data |-> td, errors |-> <<MsgInvalidAddress>>]
       ELSE IF ~DecodesString(symbol_data)
       THEN [ok |-> FALSE, token_data |-> td, errors |-> <<MsgInvalidAddress>>]
       ELSE ValidateFrom(i + 1, res, addrs,
              [a \in (DOMAIN td) \cup {addrs[i]} |->
                 IF a = addrs[i]
                 THEN [name |-> name_data.val, symbol |-> symbol_data.val]
                 ELSE td[a]])

\* mutant: the error is emitted, but the closure does not return
Mut_Validate(res, addrs) ==
  [ValidateFrom(1, res, addrs, <<>>) EXCEPT !.ok = TRUE]

\* mutant: every descriptor is stored under the first address
Mut_ValidateKey(res, addrs) ==
  ValidateFrom(1, res, [i \in DOMAIN addrs |-> addrs[1]], <<>>)

Validate(res, addrs) == ValidateFrom(1, res, addrs, <<>>)

(* ------------------- the resolver, utils.rs:10-26 --------------------- *)
\* token URIs the tokenURI() call can return, as text
TokenUris ==
  { "https://meta.example/1",
    "ipfs://CID/path",
    "ipfs:CID/path",
    "data:application/json;base64,e30=",
    "data:application/json;utf8,{\"name\":\"#1 of 9\"}",
    "ftp://x",
    "not a uri" }

NoUrl == [scheme |-> None, domain |-> None, path |-> None, text |-> None]

\* token_uri.parse::<Url>(), ws.rs:304: [ok, url]; url.text is url.to_string()
ParseUrl(raw) ==
  CASE raw = "https://meta.example/1" ->
         [ok |-> TRUE, url |-> [scheme |-> "https", domain |-> "meta.example",
                                path |-> "/1", text |-> raw]]
    [] raw = "ipfs://CID/path" ->
         [ok |-> TRUE, url |-> [scheme |-> "ipfs", domain |-> "CID",
                                path |-> "/path", text |-> raw]]
    [] raw = "ipfs:CID/path" ->   \* no authority: url.domain() is None
         [ok |-> TRUE, url |-> [scheme |-> "ipfs", domain |-> None,
                                path |-> "CID/path", text |-> raw]]
    [] raw = "data:application/json;base64,e30=" ->
         [ok |-> TRUE, url |-> [scheme |-> "data", domain |-> None,
                                path |-> "application/json;base64,e30=",
                                text |-> raw]]
    [] raw = "data:application/json;utf8,{\"name\":\"#1 of 9\"}" ->
         \* `#` starts the fragment, where space and `"` are percent-encoded
         [ok |-> TRUE, url |-> [scheme |-> "data", domain |-> None,
                                path |-> "application/json;utf8,{\"name\":\"",
                                text |-> "data:application/json;utf8,{\"name\":\"#1%20of%209%22}"]]
    [] raw = "ftp://x" ->
         [ok |-> TRUE, url |-> [scheme |-> "ftp", domain |-> "x",
                                path |-> "/", text |-> "ftp://x/"]]
    [] OTHER -> [ok |-> FALSE, url |-> NoUrl]

\* format!("https://ipfs.io/ipfs/{}{}", domain, path), utils.rs:17
IpfsGateway(domain, path) == <<"https://ipfs.io/ipfs/", domain, path>>

NoMetadata == [some |-> FALSE, value |-> <<>>, kind |-> None]

\* extract_metadata_url, utils.rs:10-26: Option<(String, MetadataType)>
extract_metadata_url(url) ==
  IF url.scheme = "http" \/ url.scheme = "https"
  THEN [some |-> TRUE, value |-> <<url.text>>, kind |-> "Url"]
  ELSE IF url.scheme = "ipfs"
  THEN IF url.domain = None THEN NoMetadata
       ELSE [some |-> TRUE, value |-> IpfsGateway(url.domain, url.path),
             kind |-> "Url"]
  ELSE IF url.scheme = "data"
  THEN [some |-> TRUE, value |-> <<url.text>>, kind |-> "Data"]
  ELSE NoMetadata

\* the `image` values a metadata document can hold
Images == { <<"https://img.example/1.png">> }

\* Option<String>
Some(v) == [some |-> TRUE, value |-> v]
NoString == [some |-> FALSE, value |-> <<>>]

(* ------------------------------- state -------------------------------- *)
NoData == [chain |-> None, addresses |-> <<>>]
\* data.addresses once it has been moved into the filter (ws.rs:251)
Moved == <<"(moved)">>
\* event_data of a decoded ERC721::Transfer (ws.rs:290) is [from, to, tokenId]
NoEvent == [from |-> None, to |-> None, tokenId |-> 0]
NoLog == [n |-> 0, address |-> None, decodes |-> FALSE, event |-> NoEvent]
NoCur == [log |-> NoLog, url |-> <<>>]

\* a log the node delivers: its position in the stream, the contract that
\* emitted it, whether log_decode::<ERC721::Transfer>() accepts it and, if
\* so, the event it decodes to.  The node applies the filter, the code does
\* not check it (ws.rs:292-295).
Log(address, decodes, event) ==
  [n |-> 0, address |-> address, decodes |-> decodes, event |-> event]

\* the logs of a run: one that does not decode, a transfer of a token of A
\* and a mint of a token of B
Logs ==
  { Log("A", FALSE, NoEvent),
    Log("A", TRUE, [from |-> "0x1", to |-> "0x2", tokenId |-> 7]),
    Log("B", TRUE, [from |-> "0x0", to |-> "0x1", tokenId |-> 8]) }

TaskPcs == {"select", "tokenURI", "get", "json"}

Init ==
  /\ connected = [s \in Sockets |-> TRUE]
  /\ handler = [s \in Sockets |-> 0]
  /\ pc = [r \in Reqs |-> "idle"]
  /\ sock = [r \in Reqs |-> 0]
  /\ data = [r \in Reqs |-> NoData]
  /\ data_addresses = [r \in Reqs |-> <<>>]
  /\ calls = [r \in Reqs |-> <<>>]
  /\ multicall_res = [r \in Reqs |-> <<>>]
  /\ token_data = [r \in Reqs |-> <<>>]
  /\ filter = [r \in Reqs |-> {}]
  /\ batches = [r \in Reqs |-> 0]
  /\ subs = [r \in Reqs |-> 0]
  /\ spawned = [r \in Reqs |-> 0]
  /\ tx_alive = [r \in Reqs |-> FALSE]
  /\ changed = [r \in Reqs |-> FALSE]
  /\ stream = [r \in Reqs |-> <<>>]
  /\ closed = [r \in Reqs |-> FALSE]
  /\ feed = [r \in Reqs |-> <<>>]
  /\ cur = [r \in Reqs |-> NoCur]
  /\ token_uri = [r \in Reqs |-> None]
  /\ out = [r \in Reqs |-> <<>>]
  /\ dropped = [r \in Reqs |-> {}]
  /\ signal_at = [r \in Reqs |-> None]

\* socket.emit(event, ..).ok(): the message is handed to the socket, which
\* takes it (sent) or returns an Err that .ok() throws away
Emit(r, msg, sent) ==
  /\ out' = [out EXCEPT ![r] = Append(@, msg)]
  /\ dropped' = [dropped EXCEPT ![r] =
                   IF sent THEN @ ELSE @ \cup {Len(out[r]) + 1}]

(* ------------------ the closure of ws.rs:77, up to spawn -------------- *)
\* mutant: the check for an empty list is missing
Mut_is_empty(addresses) == FALSE

\* data.addresses.is_empty(), ws.rs:90
is_empty(addresses) == addresses = <<>>

\* ws.rs:105-111: the addresses go through a HashSet and come out in the
\* order its hasher gives, which differs from one HashSet to the next
Dedup(addresses) == Orders(ToSet(addresses))

\* A "request" message arrives on socket s: ws.rs:77-155, up to the await of
\* the batched call.  on_disconnect replaces the socket's disconnect handler,
\* which drops the closure (and the sender) of the request before.
Request(r, s, chain, addresses, sent) ==
  /\ pc[r] = "idle"
  /\ \A q \in Reqs : q < r => pc[q] # "idle"
  /\ connected[s]
  /\ sock' = [sock EXCEPT ![r] = s]
  /\ data' = [data EXCEPT ![r] = [chain |-> chain, addresses |-> addresses]]
  /\ handler' = [handler EXCEPT ![s] = r]
  /\ tx_alive' = [q \in Reqs |-> IF q = r THEN TRUE
                                 ELSE IF q = handler[s] THEN FALSE
                                 ELSE tx_alive[q]]
  /\ IF is_empty(addresses)
     THEN /\ Emit(r, ErrorData(s, MsgNoAddresses), sent)
          /\ pc' = [pc EXCEPT ![r] = "returned"]
          /\ UNCHANGED <<data_addresses, calls, batches>>
     ELSE /\ \E da \in Dedup(addresses) :
               /\ data_addresses' = [data_addresses EXCEPT ![r] = da]
               /\ calls' = [calls EXCEPT ![r] = BuildCalls(da)]
          /\ batches' = [batches EXCEPT ![r] = @ + 1]
          /\ pc' = [pc EXCEPT ![r] = "multicall"]
          /\ UNCHANGED <<out, dropped>>
  /\ UNCHANGED <<connected, multicall_res, token_data, filter, subs, spawned,
                 changed, stream, closed, feed, cur,
                 token_uri, dropped, signal_at>>

\* the batched call fails (ws.rs:157-169)
MulticallErr(r, sent) ==
  /\ pc[r] = "multicall"
  /\ Emit(r, ErrorData(sock[r], MsgFetchFailed), sent)
  /\ pc' = [pc EXCEPT ![r] = "returned"]
  /\ UNCHANGED <<connected, handler, sock, data, data_addresses, calls,
                 multicall_res, token_data, filter, batches, subs, spawned,
                 tx_alive, changed, stream, closed, feed, cur,
                 token_uri, dropped, signal_at>>

\* the batched call returns (ws.rs:156), the results are validated
\* (ws.rs:172-246) and, when all pass, subscribe_logs is called (ws.rs:250-254)
MulticallOk(r, world, sent) ==
  /\ pc[r] = "multicall"
  /\ LET res == ExecBatch(data[r].chain, world, calls[r])
         v == Validate(res, data_addresses[r])
     IN /\ multicall_res' = [multicall_res EXCEPT ![r] = res]
        /\ out' = [out EXCEPT ![r] =
                     @ \o [i \in DOMAIN v.errors |->
                             ErrorData(sock[r], v.errors[i])]]
        /\ dropped' = [dropped EXCEPT ![r] =
                         IF sent THEN @
                         ELSE @ \cup {Len(out[r]) + i : i \in DOMAIN v.errors}]
        /\ IF v.ok
           THEN /\ token_data' = [token_data EXCEPT ![r] = v.token_data]
                /\ filter' = [filter EXCEPT ![r] = ToSet(data[r].addresses)]
                /\ data' = [data EXCEPT ![r].addresses = Moved]
                /\ subs' = [subs EXCEPT ![r] = @ + 1]
                /\ pc' = [pc EXCEPT ![r] = "subscribe"]
           ELSE /\ pc' = [pc EXCEPT ![r] = "returned"]
                /\ UNCHANGED <<token_data, filter, subs, data>>
  /\ UNCHANGED <<connected, handler, sock, data_addresses, calls,
                 batches, spawned, tx_alive, changed, stream, closed,
                 feed, cur,
                 token_uri, dropped, signal_at>>

\* mutant: the error is emitted, but the closure goes on to spawn the task
Mut_SubscribeErr(r, sent) ==
  /\ pc[r] = "subscribe"
  /\ Emit(r, ErrorData(sock[r], MsgSubscribeFailed), sent)
  /\ spawned' = [spawned EXCEPT ![r] = @ + 1]
  /\ pc' = [pc EXCEPT ![r] = "select"]
  /\ UNCHANGED <<connected, handler, sock, data, data_addresses, calls,
                 multicall_res, token_data, filter, batches, subs,
                 tx_alive, changed, stream, closed, feed, cur,
                 token_uri, dropped, signal_at>>

\* subscribe_logs fails (ws.rs:256-268)
SubscribeErr(r, sent) ==
  /\ pc[r] = "subscribe"
  /\ Emit(r, ErrorData(sock[r], MsgSubscribeFailed), sent)
  /\ pc' = [pc EXCEPT ![r] = "returned"]
  /\ UNCHANGED <<connected, handler, sock, data, data_addresses, calls,
                 multicall_res, token_data, filter, batches, subs, spawned,
                 tx_alive, changed, stream, closed, feed, cur,
                 token_uri, dropped, signal_at>>

\* subscribe_logs succeeds and the task is spawned (ws.rs:255, 271-274)
SubscribeOk(r) ==
  /\ pc[r] = "subscribe"
  /\ spawned' = [spawned EXCEPT ![r] = @ + 1]
  /\ pc' = [pc EXCEPT ![r] = "select"]
  /\ UNCHANGED <<connected, handler, sock, data, data_addresses, calls,
                 multicall_res, token_data, filter, batches, subs,
                 tx_alive, changed, stream, closed, feed, cur, out,
                 token_uri, dropped, signal_at>>

(* ------------------------------ environment --------------------------- *)
\* the rx of request r still exists: its closure or its task is running
RxAlive(r) == pc[r] \in {"multicall", "subscribe"} \cup TaskPcs

\* mutant: one channel for the whole namespace, every task hears of every
\* disconnect
Mut_Disconnect(s) ==
  /\ connected[s]
  /\ connected' = [connected EXCEPT ![s] = FALSE]
  /\ handler' = [handler EXCEPT ![s] = 0]
  /\ changed' = [q \in Reqs |-> IF RxAlive(q) THEN TRUE ELSE changed[q]]
  /\ tx_alive' = [q \in Reqs |-> IF q = handler[s] THEN FALSE ELSE tx_alive[q]]
  /\ signal_at' = [q \in Reqs |->
                     IF RxAlive(q)
                     THEN IF pc[q] \in TaskPcs THEN "task" ELSE "setup"
                     ELSE signal_at[q]]
  /\ UNCHANGED <<pc, sock, data, data_addresses, calls, multicall_res,
                 token_data, filter, batches, subs, spawned, stream, closed,
                 feed, cur, out, token_uri, dropped>>

\* The client of socket s disconnects: the disconnect handler registered last
\* runs, `tx.send(()).ok()` (ws.rs:83-87), and is dropped with its sender.
Disconnect(s) ==
  /\ connected[s]
  /\ connected' = [connected EXCEPT ![s] = FALSE]
  /\ handler' = [handler EXCEPT ![s] = 0]
  /\ LET h == handler[s] IN
       /\ changed' = [q \in Reqs |-> IF q = h /\ RxAlive(q) THEN TRUE
                                     ELSE changed[q]]
       /\ tx_alive' = [q \in Reqs |-> IF q = h THEN FALSE ELSE tx_alive[q]]
       /\ signal_at' = [q \in Reqs |->
                          IF q = h /\ RxAlive(q)
                          THEN IF pc[q] \in TaskPcs THEN "task" ELSE "setup"
                          ELSE signal_at[q]]
  /\ UNCHANGED <<pc, sock, data, data_addresses, calls, multicall_res,
                 token_data, filter, batches, subs, spawned, stream, closed,
                 feed, cur, out, token_uri, dropped>>

\* the node delivers one more log to the subscription of request r
DeliverLog(r, log, max) ==
  /\ pc[r] \in TaskPcs
  /\ ~closed[r]
  /\ Len(feed[r]) < max
  /\ feed' = [feed EXCEPT ![r] = Append(@, log)]
  /\ stream' = [stream EXCEPT ![r] = Append(@, log)]
  /\ UNCHANGED <<connected, handler, pc, sock, data, data_addresses, calls,
                 multicall_res, token_data, filter, batches, subs, spawned,
                 tx_alive, changed, closed, cur, out,
                 token_uri, dropped, signal_at>>

\* the node closes the subscription of request r
CloseStream(r) ==
  /\ pc[r] \in TaskPcs
  /\ ~closed[r]
  /\ closed' = [closed EXCEPT ![r] = TRUE]
  /\ UNCHANGED <<connected, handler, pc, sock, data, data_addresses, calls,
                 multicall_res, token_data, filter, batches, subs, spawned,
                 tx_alive, changed, stream, feed, cur, out,
                 token_uri, dropped, signal_at>>

(* ------------------- the spawned task, ws.rs:274-346 ------------------ *)
\* mutant: the task starts with a receiver that has seen everything, and
\* does not see what happened to the channel during setup
Mut_CancelPending(r) == (changed[r] \/ ~tx_alive[r]) /\ signal_at[r] # "setup"

\* rx.changed() is ready: a value was sent that rx has not seen, or the
\* sender is gone (then it resolves to Err, which the pattern `_` accepts)
CancelPending(r) == changed[r] \/ ~tx_alive[r]

\* mutant: select! without `biased` may take the stream branch first
Mut_Select(pending, ready) ==
  IF ready THEN "log"
  ELSE IF pending THEN "cancel"
  ELSE "wait"

\* tokio::select! with `biased` (ws.rs:276-344): the branches are polled in
\* the order written.  The `else` branch needs every branch disabled; the
\* first one never is, so a stream that ended only leaves the task waiting.
Select(pending, ready) ==
  IF pending THEN "cancel"
  ELSE IF ready THEN "log"
  ELSE "wait"

\* mutant: the decode error is not looked at
Mut_log_decode(log) == TRUE

\* log.log_decode::<ERC721::Transfer>() is Ok (ws.rs:286-289)
log_decode(log) == log.decodes

\* mutant: the stream hands out its newest log first
Mut_StreamNext(q) == [log |-> q[Len(q)], rest |-> SubSeq(q, 1, Len(q) - 1)]

\* stream.next() on a stream holding q
StreamNext(q) == [log |-> Head(q), rest |-> Tail(q)]

\* `continue`: back to the select, nothing emitted
Continue(r) ==
  /\ pc' = [pc EXCEPT ![r] = "select"]
  /\ cur' = [cur EXCEPT ![r] = NoCur]
  /\ UNCHANGED <<out, dropped>>

\* mutant: the result of emit is unwrapped, an Err ends the task
Mut_EmitResponse(r, image, image_type, sent) ==
  /\ Emit(r, ResponseData(sock[r], cur[r].log, token_data[r][cur[r].log.address],
                          image, image_type), sent)
  /\ pc' = [pc EXCEPT ![r] = IF sent THEN "select" ELSE "panicked"]
  /\ cur' = [cur EXCEPT ![r] = NoCur]

\* ws.rs:327-341: build ResponseData and emit it; the loop goes on
EmitResponse(r, image, image_type, sent) ==
  /\ Emit(r, ResponseData(sock[r], cur[r].log, token_data[r][cur[r].log.address],
                          image, image_type), sent)
  /\ pc' = [pc EXCEPT ![r] = "select"]
  /\ cur' = [cur EXCEPT ![r] = NoCur]

\* the cancellation branch wins the select: break (ws.rs:279-284).  The task
\* ends; `stream` keeps what the subscription held when it was dropped.
TaskCancel(r) ==
  /\ pc[r] = "select"
  /\ Select(CancelPending(r), stream[r] # <<>>) = "cancel"
  /\ pc' = [pc EXCEPT ![r] = "cancelled"]
  /\ UNCHANGED <<connected, handler, sock, data, data_addresses, calls,
                 multicall_res, token_data, filter, batches, subs, spawned,
                 tx_alive, changed, stream, closed, feed, cur, out,
                 token_uri, dropped, signal_at>>

\* the stream branch wins the select (ws.rs:285-299): decode the log, look
\* the descriptor up, start the tokenURI call
TaskLog(r) ==
  /\ pc[r] = "select"
  /\ Select(CancelPending(r), stream[r] # <<>>) = "log"
  /\ LET nx == StreamNext(stream[r]) IN
       IF ~log_decode(nx.log)
       THEN /\ stream' = [stream EXCEPT ![r] = nx.rest]
            /\ UNCHANGED <<pc, cur>>
       ELSE IF nx.log.address \notin DOMAIN token_data[r]
       THEN \* unreachable!() panics: the task ends
            /\ pc' = [pc EXCEPT ![r] = "panicked"]
            /\ stream' = [stream EXCEPT ![r] = nx.rest]
            /\ UNCHANGED cur
       ELSE /\ stream' = [stream EXCEPT ![r] = nx.rest]
            /\ pc' = [pc EXCEPT ![r] = "tokenURI"]
            /\ cur' = [cur EXCEPT ![r] = [log |-> nx.log, url |-> <<>>]]
  /\ token_uri' = [token_uri EXCEPT ![r] = None]
  /\ UNCHANGED <<connected, handler, sock, data, data_addresses, calls,
                 multicall_res, token_data, filter, batches, subs, spawned,
                 tx_alive, changed, closed, feed, out, dropped,
                 signal_at>>

\* mutant: a failed tokenURI call is treated like a URI without image
Mut_TokenUriErr(r) ==
  /\ pc[r] = "tokenURI"
  /\ EmitResponse(r, NoString, None, TRUE)
  /\ UNCHANGED <<connected, handler, sock, data, data_addresses, calls,
                 multicall_res, token_data, filter, batches, subs, spawned,
                 tx_alive, changed, stream, closed, feed, token_uri,
                 signal_at>>

\* the tokenURI call fails (ws.rs:301)
TokenUriErr(r) ==
  /\ pc[r] = "tokenURI"
  /\ Continue(r)
  /\ UNCHANGED <<connected, handler, sock, data, data_addresses, calls,
                 multicall_res, token_data, filter, batches, subs, spawned,
                 tx_alive, changed, stream, closed, feed,
                 token_uri, dropped, signal_at>>

\* the tokenURI call returns token_uri (ws.rs:300-325): parse it, resolve it,
\* and either start the metadata fetch or emit at once
TokenUriOk(r, uri, sent) ==
  /\ pc[r] = "tokenURI"
  /\ token_uri' = [token_uri EXCEPT ![r] = uri]
  /\ LET parsed == ParseUrl(uri)
         metadata == extract_metadata_url(parsed.url)
     IN IF ~parsed.ok THEN Continue(r)
        ELSE IF metadata.some /\ metadata.kind = "Url"
        THEN /\ pc' = [pc EXCEPT ![r] = "get"]
             /\ cur' = [cur EXCEPT ![r].url = metadata.value]
             /\ UNCHANGED <<out, dropped>>
        ELSE IF metadata.some /\ metadata.kind = "Data"
        THEN EmitResponse(r, Some(metadata.value), "Data", sent)
        ELSE EmitResponse(r, NoString, None, sent)
  /\ UNCHANGED <<connected, handler, sock, data, data_addresses, calls,
                 multicall_res, token_data, filter, batches, subs, spawned,
                 tx_alive, changed, stream, closed, feed,
                 signal_at>>

\* reqwest::get(url) returns (ws.rs:313-316)
GetReturn(r, ok) ==
  /\ pc[r] = "get"
  /\ IF ok
     THEN /\ pc' = [pc EXCEPT ![r] = "json"]
          /\ UNCHANGED <<cur, out, dropped>>
     ELSE Continue(r)
  /\ UNCHANGED <<connected, handler, sock, data, data_addresses, calls,
                 multicall_res, token_data, filter, batches, subs, spawned,
                 tx_alive, changed, stream, closed, feed,
                 token_uri, dropped, signal_at>>

\* res.json::<Metadata>() fails: the body is no document with an `image`
JsonErr(r) ==
  /\ pc[r] = "json"
  /\ Continue(r)
  /\ UNCHANGED <<connected, handler, sock, data, data_addresses, calls,
                 multicall_res, token_data, filter, batches, subs, spawned,
                 tx_alive, changed, stream, closed, feed,
                 token_uri, dropped, signal_at>>

\* res.json::<Metadata>() returns the document (ws.rs:317-341)
JsonOk(r, image, sent) ==
  /\ pc[r] = "json"
  /\ EmitResponse(r, Some(image), "Url", sent)
  /\ UNCHANGED <<connected, handler, sock, data, data_addresses, calls,
                 multicall_res, token_data, filter, batches, subs, spawned,
                 tx_alive, changed, stream, closed, feed,
                 token_uri, dropped, signal_at>>

(* ----------------------------- specification -------------------------- *)
\* One step of the program or of its environment, for the requests R on the
\* sockets S, with the inputs of E: the address lists and chains of requests,
\* the kinds of contract, the logs a node delivers and how many, and the
\* token URIs.
Step(R, S, E) ==
  \/ \E r \in R, s \in S, chain \in E.chains, addresses \in E.lists :
        \E sent \in E.emits : Request(r, s, chain, addresses, sent)
  \/ \E r \in R : \E sent \in E.emits : MulticallErr(r, sent)
  \/ \E r \in R : \E world \in [ToSet(data_addresses[r]) -> E.kinds] :
        \E sent \in E.emits : MulticallOk(r, world, sent)
  \/ \E r \in R : \E sent \in E.emits : SubscribeErr(r, sent)
  \/ \E r \in R : SubscribeOk(r)
  \/ \E s \in S : Disconnect(s)
  \/ \E r \in R : \E log \in E.logs :
        DeliverLog(r, [log EXCEPT !.n = Len(feed[r]) + 1], E.max)
  \/ \E r \in R : CloseStream(r)
  \/ \E r \in R : TaskCancel(r)
  \/ \E r \in R : TaskLog(r)
  \/ \E r \in R : TokenUriErr(r)
  \/ \E r \in R : \E uri \in E.uris : \E sent \in E.emits :
        TokenUriOk(r, uri, sent)
  \/ \E r \in R : \E ok \in BOOLEAN : GetReturn(r, ok)
  \/ \E r \in R : JsonErr(r)
  \/ \E r \in R : \E image \in Images : \E sent \in E.emits :
        JsonOk(r, image, sent)

\* one request on one socket, with every input, and a socket that takes
\* every message
Inputs ==
  [lists |-> SeqsUpTo(Addrs, MaxLen), chains |-> Chains, kinds |-> Kinds,
   logs |-> Logs, max |-> MaxLogs, uris |-> TokenUris, emits |-> {TRUE}]

Next == Step({1}, {1}, Inputs)

Spec == Init /\ [][Next]_vars

\* two requests, on the same socket or on two, with fewer inputs
MultiLogs == 1

MultiInputs ==
  [lists |-> {<<"A">>, <<"A", "B">>, <<"A", "A", "B">>},
   chains |-> {"Mainnet"},
   kinds |-> {"erc721", "not721"},
   logs |-> {Log("A", TRUE, [from |-> "0x1", to |-> "0x2", tokenId |-> 7])},
   max |-> MultiLogs,
   uris |-> {"https://meta.example/1"},
   emits |-> {TRUE}]

NextMulti == Step(Reqs, Sockets, MultiInputs)

SpecMulti == Init /\ [][NextMulti]_vars

\* two connections with one request each: request 1 on socket 1, request 2
\* on socket 2
PairInputs == [MultiInputs EXCEPT !.lists = {<<"A">>, <<"B", "A">>}]

NextPair == Step({1}, {1}, PairInputs) \/ Step({2}, {2}, PairInputs)

SpecPair == Init /\ [][NextPair]_vars

\* a step of the closure or of the task of request 1, with the inputs of E
Runs(E) ==
  \E r \in {1} :
    \/ SubscribeOk(r)
    \/ \E sent \in E.emits : MulticallErr(r, sent) \/ SubscribeErr(r, sent)
    \/ \E world \in [ToSet(data_addresses[r]) -> E.kinds] :
          \E sent \in E.emits : MulticallOk(r, world, sent)
    \/ TaskCancel(r) \/ TaskLog(r) \/ TokenUriErr(r) \/ JsonErr(r)
    \/ \E uri \in E.uris : \E sent \in E.emits : TokenUriOk(r, uri, sent)
    \/ \E ok \in BOOLEAN : GetReturn(r, ok)
    \/ \E image \in Images : \E sent \in E.emits : JsonOk(r, image, sent)

\* Spec, where every step of a closure or task that can be taken is
\* eventually taken: tokio polls a task that is ready, and the calls the
\* task awaits (batched call, subscribe, tokenURI, get, json) return
Progress == Runs(Inputs)

FairSpec == Spec /\ WF_vars(Progress)

\* one request on one socket that may refuse any message (its channel is
\* full or closed), with fewer of the other inputs; steps that can be taken
\* are eventually taken
LossyInputs ==
  [lists |-> {<<"A">>, <<"B", "A">>},
   chains |-> {"Mainnet"},
   kinds |-> {"erc721", "noCode"},
   logs |-> Logs,
   max |-> MaxLogs,
   uris |-> {"https://meta.example/1", "data:application/json;base64,e30=",
             "ftp://x", "not a uri"},
   emits |-> BOOLEAN]

NextLossy == Step({1}, {1}, LossyInputs)

LossySpec == Init /\ [][NextLossy]_vars /\ WF_vars(Runs(LossyInputs))

\* the same, but the metadata server need not answer: reqwest::get(url) and
\* res.json() are awaited with no timeout (ws.rs:313, 317), so their return
\* is not something the program can count on
ProgressButFetch ==
  \E r \in {1} :
    \/ SubscribeOk(r)
    \/ \E sent \in Inputs.emits : MulticallErr(r, sent) \/ SubscribeErr(r, sent)
    \/ \E world \in [ToSet(data_addresses[r]) -> Inputs.kinds] :
          \E sent \in Inputs.emits : MulticallOk(r, world, sent)
    \/ TaskCancel(r) \/ TaskLog(r) \/ TokenUriErr(r)
    \/ \E uri \in Inputs.uris : \E sent \in Inputs.emits :
          TokenUriOk(r, uri, sent)

SlowFetchSpec == Spec /\ WF_vars(ProgressButFetch)

(* ------------------------- vocabulary of the claims ------------------- *)
\* the `response` messages / the `error` messages of a sequence of messages
IsResponse(m) == m.event = "response"
IsError(m) == m.event = "error"
Responses(o) == SelectSeq(o, IsResponse)
Errors(o) == SelectSeq(o, IsError)

\* request r was received
Received(r) == pc[r] # "idle"

\* the disconnect signal of the connection of request r was given
Disconnected(r) == sock[r] # 0 /\ ~connected[sock[r]]

\* result d of call c shows the address c.target to be invalid: the probe is
\* false or does not decode, or the name or symbol does not decode
BadResult(c, d) ==
  \/ c.callData = "supportsInterface" /\ (d.tag # "bool" \/ d = [tag |-> "bool", val |-> FALSE])
  \/ c.callData \in {"name", "symbol"} /\ d.tag # "string"

\* the batch of request r returned, and some result shows an address invalid
SomeAddressInvalid(r) ==
  /\ multicall_res[r] # <<>>
  /\ \E i \in DOMAIN multicall_res[r] : BadResult(calls[r][i], multicall_res[r][i])

\* the batch of request r returned, and address a passed probe, name, symbol
AddressValid(r, a) ==
  /\ multicall_res[r] # <<>>
  /\ \E i \in DOMAIN calls[r] : calls[r][i].target = a
  /\ \A i \in DOMAIN multicall_res[r] :
       calls[r][i].target = a => ~BadResult(calls[r][i], multicall_res[r][i])

(* ------------------------------- C1 ----------------------------------- *)
\* C1: a request one of whose addresses fails the probe, or whose name or
\* symbol does not decode, is rejected as a whole: it has emitted exactly the
\* error "Invalid address provided", its closure has returned, it opened no
\* subscription, spawned no task, cached nothing and has emitted no
\* `response`, also not for its valid addresses.
C1_AllOrNothing ==
  \A r \in Reqs :
    SomeAddressInvalid(r) =>
      /\ pc[r] = "returned"
      /\ out[r] = <<ErrorData(sock[r], MsgInvalidAddress)>>
      /\ Responses(out[r]) = <<>>
      /\ subs[r] = 0 /\ spawned[r] = 0 /\ feed[r] = <<>>

\* a request [valid, invalid] (in batch order) was rejected
C1_Witness ==
  \E r \in Reqs :
    /\ SomeAddressInvalid(r)
    /\ Len(data_addresses[r]) = 2
    /\ AddressValid(r, data_addresses[r][1])
    /\ ~AddressValid(r, data_addresses[r][2])
    /\ pc[r] = "returned"

(* ------------------------------- C2 ----------------------------------- *)
\* C2: once the connection of a request is disconnected, no step adds a
\* `response` to what the request has emitted.
C2_NoResponseAfterDisconnect ==
  [][\A r \in Reqs :
       Disconnected(r) => Responses(out'[r]) = Responses(out[r])]_vars

(* ------------------------------- C3 ----------------------------------- *)
\* C3: a request with an empty address list has emitted exactly the error
\* "No addresses provided" and has returned: it built no call, made no
\* batched call, opened no subscription and spawned no task.
C3_EmptyRejected ==
  \A r \in Reqs :
    (Received(r) /\ data[r].addresses = <<>>) =>
      /\ out[r] = <<ErrorData(sock[r], MsgNoAddresses)>>
      /\ pc[r] = "returned"
      /\ calls[r] = <<>> /\ batches[r] = 0 /\ subs[r] = 0 /\ spawned[r] = 0

\* a request with an empty list was received
C3_Witness ==
  \E r \in Reqs : Received(r) /\ data[r].addresses = <<>> /\ Len(out[r]) = 1

(* ------------------------------- C4 ----------------------------------- *)
\* the batched call of request r failed, or showed an address invalid
ValidationError(r) ==
  \/ pc[r] = "returned" /\ batches[r] = 1 /\ multicall_res[r] = <<>>
  \/ SomeAddressInvalid(r)

\* C4: a request spawns at most one task, and only when every address it
\* names (they are the addresses of its filter) passed validation and it emitted no error; a request whose
\* validation failed has emitted exactly one message, an error, has returned
\* and has spawned no task.
C4_SpawnOnlyAfterValidation ==
  \A r \in Reqs :
    /\ spawned[r] <= 1
    /\ spawned[r] = 1 =>
         /\ \A a \in filter[r] : AddressValid(r, a)
         /\ Errors(out[r]) = <<>>
    /\ ValidationError(r) =>
         /\ Len(out[r]) = 1 /\ IsError(out[r][1])
         /\ pc[r] = "returned"
         /\ spawned[r] = 0

\* a task was spawned for a request naming two addresses
C4_Witness ==
  \E r \in Reqs : spawned[r] = 1 /\ Cardinality(filter[r]) = 2

(* ------------------------------- C5 ----------------------------------- *)
\* C5: an iteration of the loop that starts with the cancellation pending
\* consumes no log (the task stays at the select or ends cancelled, and the
\* stream loses nothing), and a task whose disconnect signal was sent ends
\* cancelled, whatever the stream holds.
C5_CancelPriority ==
  /\ [][\A r \in Reqs :
          (pc[r] = "select" /\ CancelPending(r)) =>
            /\ pc'[r] \in {"select", "cancelled"}
            /\ Len(stream'[r]) >= Len(stream[r])
            /\ out'[r] = out[r]]_vars
  /\ \A r \in Reqs : (changed[r] /\ pc[r] \in TaskPcs) ~> (pc[r] = "cancelled")

\* a task ended cancelled by the signal while its stream had a log ready
C5_Witness ==
  \E r \in Reqs : pc[r] = "cancelled" /\ changed[r] /\ stream[r] # <<>>

(* ------------------------------- C6 ----------------------------------- *)
\* C6: the responses of a request are for logs the node delivered to it, and
\* come in the order of delivery: a response emitted later is for a log
\* delivered later.
C6_Ordered ==
  \A r \in Reqs :
    LET resp == Responses(out[r]) IN
      /\ \A i \in DOMAIN resp :
           /\ resp[i].log \in DOMAIN feed[r]
           /\ resp[i].address = feed[r][resp[i].log].address
      /\ \A i, j \in DOMAIN resp : i < j => resp[i].log < resp[j].log

\* two responses were emitted by one request
C6_Witness == \E r \in Reqs : Len(Responses(out[r])) >= 2

(* ------------------------------- C7 ----------------------------------- *)
\* C7: a task leaves the loop only when the cancellation is pending or the
\* stream was closed.
C7_OnlyCancelOrClose ==
  [][\A r \in Reqs :
       (pc[r] \in TaskPcs /\ pc'[r] \notin TaskPcs) =>
         (CancelPending(r) \/ closed[r])]_vars

(* ------------------------------- C8 ----------------------------------- *)
\* C8: an image resolution that was started ends, failed or not, with the
\* event emitted: the step that takes the task from the metadata fetch back
\* to the select adds one `response`.
C8_FetchFailureStillEmits ==
  [][\A r \in Reqs :
       (pc[r] \in {"get", "json"} /\ pc'[r] = "select") =>
         Len(Responses(out'[r])) = Len(Responses(out[r])) + 1]_vars

(* ------------------------------- C9 ----------------------------------- *)
\* C9: no response is for a log that fails to decode, and the step that
\* consumes such a log takes that log alone off the stream, emits nothing and
\* leaves the task at the select.
C9_DecodeFailureSkipped ==
  /\ [](\A r \in Reqs :
          LET resp == Responses(out[r]) IN
            \A i \in DOMAIN resp : feed[r][resp[i].log].decodes)
  /\ [][\A r \in Reqs :
          (/\ pc[r] = "select"
           /\ ~CancelPending(r)
           /\ stream[r] # <<>>
           /\ ~Head(stream[r]).decodes
           /\ Len(stream'[r]) < Len(stream[r])) =>
            /\ pc'[r] = "select"
            /\ stream'[r] = Tail(stream[r])
            /\ out'[r] = out[r]]_vars

\* the first log did not decode and the second one got its response
C9_Witness ==
  \E r \in Reqs :
    /\ Len(feed[r]) >= 2
    /\ ~feed[r][1].decodes
    /\ \E i \in DOMAIN out[r] : IsResponse(out[r][i]) /\ out[r][i].log = 2

(* ------------------------------- C10 ---------------------------------- *)
\* the list without the repetitions of an address it already holds
RECURSIVE Distinct(_)
Distinct(list) ==
  IF list = <<>> THEN <<>>
  ELSE LET front == Distinct(SubSeq(list, 1, Len(list) - 1))
           last == list[Len(list)]
       IN IF last \in ToSet(front) THEN front ELSE Append(front, last)

\* the batch of request r holds, for each distinct address and nothing else,
\* the probe, the name call and the symbol call, in that order
ThreePerAddress(r) ==
  /\ Len(calls[r]) = 3 * Cardinality(ToSet(data[r].addresses))
  /\ ToSet(data[r].addresses) = {calls[r][i].target : i \in DOMAIN calls[r]}
  /\ \A k \in 1..Cardinality(ToSet(data[r].addresses)) :
       /\ calls[r][3 * k - 2].callData = "supportsInterface"
       /\ calls[r][3 * k - 1].callData = "name"
       /\ calls[r][3 * k].callData = "symbol"
       /\ calls[r][3 * k - 2].target = calls[r][3 * k - 1].target
       /\ calls[r][3 * k - 1].target = calls[r][3 * k].target

\* C10: every request with a non-empty list makes exactly one batched call,
\* of three calls per distinct address, and two requests on the same chain
\* whose lists differ only by repeated addresses build the same batch.
C10_DedupStable ==
  /\ \A r \in Reqs :
       (Received(r) /\ data[r].addresses \notin {<<>>, Moved}) =>
         batches[r] = 1 /\ ThreePerAddress(r)
  /\ \A r1, r2 \in Reqs :
       (/\ Received(r1) /\ Received(r2)
        /\ data[r1].addresses \notin {<<>>, Moved}
        /\ data[r2].addresses \notin {<<>>, Moved}
        /\ data[r1].addresses # data[r2].addresses
        /\ data[r1].chain = data[r2].chain
        /\ Distinct(data[r1].addresses) = Distinct(data[r2].addresses)) =>
         calls[r1] = calls[r2]

(* ------------------------------- C11 ---------------------------------- *)
\* the closure of request r called subscribe_logs and returned: the call failed
SubscribeFailed(r) == pc[r] = "returned" /\ subs[r] = 1

\* C11: a request whose subscribe_logs call failed has emitted exactly one
\* message, the error "Failed to subscribe to blocks", has spawned no task
\* and was delivered no log; the step that leaves the subscribe call either
\* spawns the task and emits nothing, or emits that error and returns; and
\* a closure that returned emits nothing more.
C11_SubscribeFailureFatal ==
  /\ [](\A r \in Reqs :
          SubscribeFailed(r) =>
            /\ out[r] = <<ErrorData(sock[r], MsgSubscribeFailed)>>
            /\ spawned[r] = 0
            /\ feed[r] = <<>>)
  /\ [][\A r \in Reqs :
          (pc[r] = "subscribe" /\ pc'[r] # "subscribe") =>
            \/ pc'[r] = "select" /\ out'[r] = out[r]
            \/ /\ pc'[r] = "returned"
               /\ out'[r] = Append(out[r], ErrorData(sock[r], MsgSubscribeFailed))]_vars
  /\ [][\A r \in Reqs :
          pc[r] = "returned" => pc'[r] = "returned" /\ out'[r] = out[r]]_vars

\* subscribe_logs failed for a request that named two valid addresses
C11_Witness ==
  \E r \in Reqs : SubscribeFailed(r) /\ Cardinality(filter[r]) = 2

(* ------------------------------- C12 ---------------------------------- *)
\* the task of request r is able to emit a `response`: it is working on an
\* event, or it waits at the select and the cancellation is not pending
AbleToEmit(r) ==
  \/ pc[r] \in {"tokenURI", "get", "json"}
  \/ pc[r] = "select" /\ ~CancelPending(r)

\* C12: of the tasks spawned for the requests of one connection, at most one
\* is able to emit a `response`.
C12_OneActiveTask ==
  \A r1, r2 \in Reqs :
    (r1 # r2 /\ sock[r1] # 0 /\ sock[r1] = sock[r2]) =>
      ~(AbleToEmit(r1) /\ AbleToEmit(r2))

(* ------------------------------- C13 ---------------------------------- *)
\* C13: every `response` of a request carries the contract address and the
\* from, to and tokenId of the decoded log it was built from, and the name
\* and symbol that the batch of the same request returned for the name and
\* symbol calls to that address.
C13_ResponseIdentity ==
  \A r \in Reqs :
    LET resp == Responses(out[r]) IN
      \A k \in DOMAIN resp :
        LET m == resp[k] IN
          /\ m.log \in DOMAIN feed[r]
          /\ feed[r][m.log].decodes
          /\ m.address = feed[r][m.log].address
          /\ m.from = feed[r][m.log].event.from
          /\ m.to = feed[r][m.log].event.to
          /\ m.token_id = feed[r][m.log].event.tokenId
          /\ \E i, j \in DOMAIN calls[r] :
               /\ calls[r][i] = Call(m.address, "name")
               /\ multicall_res[r][i] = [tag |-> "string", val |-> m.name]
               /\ calls[r][j] = Call(m.address, "symbol")
               /\ multicall_res[r][j] = [tag |-> "string", val |-> m.symbol]

\* a request naming two addresses emitted responses for a transfer of each
C13_Witness ==
  \E r \in Reqs :
    LET resp == Responses(out[r]) IN
      /\ Len(resp) = 2
      /\ resp[1].address # resp[2].address
      /\ resp[1].token_id # resp[2].token_id
      /\ resp[1].from # resp[1].to

(* ------------------------------- C14 ---------------------------------- *)
\* the step of request r appends one `response` with this image and type
EmitsWith(r, image, image_type) ==
  /\ Len(out'[r]) = Len(out[r]) + 1
  /\ SubSeq(out'[r], 1, Len(out[r])) = out[r]
  /\ IsResponse(out'[r][Len(out'[r])])
  /\ out'[r][Len(out'[r])].image = image
  /\ out'[r][Len(out'[r])].image_type = image_type

\* C14: when the tokenURI call returns a URI that parses, the step resolves
\* it by scheme: `ipfs://CID/path` starts the fetch of
\* https://ipfs.io/ipfs/CID/path; an http or https URI starts the fetch of
\* that URI; a `data:` URI starts no fetch, and the response is emitted at
\* once with the URI itself, unchanged, as image and type Data; a URI of any
\* other scheme starts no fetch, and the response is emitted without image.
C14_ResolverByScheme ==
  [][\A r \in Reqs :
       (pc[r] = "tokenURI" /\ token_uri'[r] # None /\ ParseUrl(token_uri'[r]).ok) =>
         LET raw == token_uri'[r]
             url == ParseUrl(raw).url
         IN /\ (url.scheme = "ipfs" /\ url.domain # None) =>
                 /\ pc'[r] = "get" /\ out'[r] = out[r]
                 /\ cur'[r].url = <<"https://ipfs.io/ipfs/", url.domain, url.path>>
            /\ url.scheme \in {"http", "https"} =>
                 /\ pc'[r] = "get" /\ out'[r] = out[r]
                 /\ cur'[r].url = <<raw>>
            /\ url.scheme = "data" =>
                 /\ pc'[r] = "select"
                 /\ EmitsWith(r, Some(<<raw>>), "Data")
            /\ url.scheme \notin {"ipfs", "http", "https", "data"} =>
                 /\ pc'[r] = "select"
                 /\ EmitsWith(r, NoString, None)]_vars

(* ------------------------------- C15 ---------------------------------- *)
\* the batched call of request r failed
BatchFailed(r) == pc[r] = "returned" /\ batches[r] = 1 /\ multicall_res[r] = <<>>

\* C15: a request whose closure returned has emitted exactly one message, an
\* error; if the batched call or subscribe_logs failed, its text is not the
\* text of the error for an invalid address, which is what a request with
\* an invalid address gets; and a request whose task was spawned has
\* emitted no error.
C15_OneDistinctError ==
  \A r \in Reqs :
    /\ pc[r] = "returned" =>
         /\ Len(out[r]) = 1 /\ IsError(out[r][1])
         /\ (BatchFailed(r) \/ SubscribeFailed(r)) =>
              out[r][1].message # "Invalid address provided"
         /\ SomeAddressInvalid(r) =>
              out[r][1].message = "Invalid address provided"
    /\ spawned[r] = 1 => Errors(out[r]) = <<>>

\* the batched call of a request failed
C15_Witness == \E r \in Reqs : BatchFailed(r) /\ Len(out[r]) = 1

(* ------------------------------- C16 ---------------------------------- *)
\* the task of request r is running
Streaming(r) == pc[r] \in TaskPcs

\* C16: while the task of a request runs, its cache has an entry for exactly
\* the addresses of its filter, and each of them passed the probe and gave
\* a name and a symbol; no step of a running task changes the cache; and
\* when the task takes a log that decodes and whose address is in the
\* filter, it finds the descriptor and goes on to the tokenURI call.
C16_CacheCoversFilter ==
  /\ [](\A r \in Reqs :
          Streaming(r) =>
            /\ DOMAIN token_data[r] = filter[r]
            /\ \A a \in filter[r] : AddressValid(r, a))
  /\ [][\A r \in Reqs : Streaming(r) => token_data'[r] = token_data[r]]_vars
  /\ [][\A r \in Reqs :
          (/\ pc[r] = "select" /\ stream[r] # <<>>
           /\ Len(stream'[r]) < Len(stream[r])
           /\ Head(stream[r]).decodes
           /\ Head(stream[r]).address \in filter[r]) =>
            /\ pc'[r] = "tokenURI"
            /\ cur'[r].log = Head(stream[r])]_vars

\* the task of a request naming two addresses found the descriptor of a log
C16_Witness ==
  \E r \in Reqs :
    /\ pc[r] = "tokenURI"
    /\ Cardinality(filter[r]) = 2
    /\ cur[r].log.address \in filter[r]

(* ------------------------------- C17 ---------------------------------- *)
\* the descriptor request r holds for address a was built from the results
\* of the name call and the symbol call whose target was a
DescriptorFromCallsTo(r, a) ==
  \E i, j \in DOMAIN calls[r] :
    /\ calls[r][i] = Call(a, "name")
    /\ multicall_res[r][i] = [tag |-> "string", val |-> token_data[r][a].name]
    /\ calls[r][j] = Call(a, "symbol")
    /\ multicall_res[r][j] = [tag |-> "string", val |-> token_data[r][a].symbol]

\* C17: the k-th group of three results is matched to the k-th address of
\* the batch: every descriptor a request holds was built from the results
\* of the calls to its address, and the step that ends validation with
\* success stores a descriptor for every address of the request's list,
\* whatever its order and its repetitions.
C17_ChunksMatchAddresses ==
  /\ [](\A r \in Reqs :
          /\ \A a \in DOMAIN token_data[r] : DescriptorFromCallsTo(r, a)
          /\ multicall_res[r] # <<>> =>
               \A k \in DOMAIN data_addresses[r] :
                 \A c \in {3 * k - 2, 3 * k - 1, 3 * k} :
                   calls[r][c].target = data_addresses[r][k])
  /\ [][\A r \in Reqs :
          (pc[r] = "multicall" /\ pc'[r] = "subscribe") =>
            DOMAIN token_data'[r] = ToSet(data[r].addresses)]_vars

\* a request was validated whose batch has B before A
C17_Witness ==
  \E r \in Reqs :
    /\ data_addresses[r] = <<"B", "A">>
    /\ DOMAIN token_data[r] = {"A", "B"}
    /\ token_data[r]["A"].name # token_data[r]["B"].name

(* ------------------------------- C18 ---------------------------------- *)
\* C18: whether or not the metadata fetch of an event completes, a log that
\* waits in the stream of a running task is taken off it (or the task has
\* ended), and a task whose disconnect signal was sent ends cancelled.
C18_FetchNeverBlocks ==
  \A r \in Reqs :
    /\ (Streaming(r) /\ stream[r] # <<>>) ~> (stream[r] = <<>> \/ ~Streaming(r))
    /\ (Streaming(r) /\ changed[r]) ~> (pc[r] = "cancelled")

(* ------------------------------- C19 ---------------------------------- *)
\* the step of request r is an emit of a `response` that the socket refuses
ResponseDropped(r) ==
  /\ dropped'[r] # dropped[r]
  /\ IsResponse(out'[r][Len(out'[r])])

\* C19: a step in which the emit of a `response` fails loses that message
\* alone: the task is back at the select, the stream and the messages
\* emitted before are as they were; and a log that waits in the stream of a
\* task one of whose emits failed is taken off the stream, unless the task
\* has ended.
C19_EmitFailureDropsOne ==
  /\ [][\A r \in Reqs :
          ResponseDropped(r) =>
            /\ pc'[r] = "select"
            /\ stream'[r] = stream[r]
            /\ closed'[r] = closed[r]
            /\ SubSeq(out'[r], 1, Len(out[r])) = out[r]
            /\ dropped'[r] = dropped[r] \cup {Len(out[r]) + 1}]_vars
  /\ \A r \in Reqs :
       (Streaming(r) /\ dropped[r] # {} /\ stream[r] # <<>>)
         ~> (stream[r] = <<>> \/ ~Streaming(r))

\* the emit of the first response failed, and the response of a later log
\* was emitted and taken
C19_Witness ==
  \E r \in Reqs :
    /\ Len(out[r]) = 2
    /\ IsResponse(out[r][1]) /\ IsResponse(out[r][2])
    /\ out[r][1].log < out[r][2].log
    /\ dropped[r] = {1}

(* ------------------------------- C20 ---------------------------------- *)
\* C20: when the disconnect handler of a request ran while its batched call
\* or its subscribe_logs call was awaited, the request emits no `response`
\* and its task, if spawned, takes no log off its stream: it finds the
\* cancellation pending at its first select and ends cancelled.
C20_SetupDisconnectKept ==
  /\ [](\A r \in Reqs :
          signal_at[r] = "setup" =>
            /\ Responses(out[r]) = <<>>
            /\ pc[r] \in {"multicall", "subscribe", "returned", "select", "cancelled"}
            /\ stream[r] = feed[r]
            /\ Streaming(r) => CancelPending(r))
  /\ \A r \in Reqs :
       (signal_at[r] = "setup") ~> (pc[r] \in {"returned", "cancelled"})

\* a task spawned after such a disconnect ended cancelled with a log in its
\* stream
C20_Witness ==
  \E r \in Reqs :
    /\ signal_at[r] = "setup"
    /\ pc[r] = "cancelled"
    /\ stream[r] # <<>>
    /\ out[r] = <<>>

(* ------------------------------- C21 ---------------------------------- *)
\* everything request r owns: its closure, its channel, its cache, its
\* stream, its task and what it emitted
Session(r) ==
  <<pc[r], data[r], data_addresses[r], calls[r], multicall_res[r],
    token_data[r], filter[r], tx_alive[r], changed[r], stream[r], closed[r],
    cur[r], out[r], dropped[r]>>

\* C21: a step that changes something of one connection, be it the
\* disconnect of its socket or a step of one of its requests (a failure of
\* its setup, a fault on one of its events, anything else), changes nothing
\* of a request of another connection: not its task, not its stream, not
\* what it emitted; and the socket id, name and symbol of every `response`
\* are those of the request that emitted it and of its own cache.
C21_SessionsIsolated ==
  /\ [][\A r1, r2 \in Reqs :
          (/\ sock[r2] # 0 /\ sock'[r1] # 0 /\ sock'[r1] # sock[r2]
           /\ \/ Session(r1)' # Session(r1)
              \/ connected'[sock'[r1]] # connected[sock'[r1]]) =>
            Session(r2)' = Session(r2)]_vars
  /\ [](\A r \in Reqs :
          \A k \in DOMAIN out[r] :
            /\ out[r][k].id = sock[r]
            /\ IsResponse(out[r][k]) =>
                 /\ out[r][k].address \in DOMAIN token_data[r]
                 /\ out[r][k].name = token_data[r][out[r][k].address].name
                 /\ out[r][k].symbol = token_data[r][out[r][k].address].symbol)

\* two connections: the client of one disconnected and its task ended
\* cancelled, the task of the other runs and has emitted a response
C21_Witness ==
  \E r1, r2 \in Reqs :
    /\ sock[r1] # 0 /\ sock[r2] # 0 /\ sock[r1] # sock[r2]
    /\ ~connected[sock[r1]] /\ pc[r1] = "cancelled"
    /\ connected[sock[r2]] /\ Streaming(r2) /\ ~CancelPending(r2)
    /\ Responses(out[r2]) # <<>>

(* ------------------------------- C22 ---------------------------------- *)
\* the number of logs the task of request r took off its stream
Consumed(r) == Len(feed[r]) - Len(stream[r])

\* C22: no two responses of a request are for the same log, each is for a
\* log the task took off the stream, and none is for the log in hand; a
\* step that emits a response emits one, for the log in hand, and ends the
\* iteration; and when the tokenURI call fails or returns text that is no
\* URI, the iteration ends with nothing emitted, the task is back at the
\* select and the stream is as it was.
C22_AtMostOnePerLog ==
  /\ [](\A r \in Reqs :
          LET resp == Responses(out[r]) IN
            /\ \A i, j \in DOMAIN resp : i # j => resp[i].log # resp[j].log
            /\ \A i \in DOMAIN resp : resp[i].log \in 1..Consumed(r)
            /\ pc[r] \in {"tokenURI", "get", "json"} =>
                 \A i \in DOMAIN resp : resp[i].log # cur[r].log.n)
  /\ [][\A r \in Reqs :
          Responses(out'[r]) # Responses(out[r]) =>
            /\ pc[r] \in {"tokenURI", "json"}
            /\ out'[r] = Append(out[r], out'[r][Len(out'[r])])
            /\ out'[r][Len(out'[r])].log = cur[r].log.n
            /\ pc'[r] = "select" /\ cur'[r] = NoCur]_vars
  /\ [][\A r \in Reqs :
          (/\ pc[r] = "tokenURI" /\ pc'[r] # "tokenURI"
           /\ token_uri'[r] \in {None, "not a uri"}) =>
            /\ out'[r] = out[r]
            /\ pc'[r] = "select"
            /\ stream'[r] = stream[r]]_vars

\* the token URI of the first log was no URI: nothing was emitted for it,
\* and the task is at the select with the second log waiting
C22_Witness ==
  \E r \in Reqs :
    /\ pc[r] = "select"
    /\ token_uri[r] = "not a uri"
    /\ Len(feed[r]) = 2 /\ feed[r][1].decodes
    /\ stream[r] = <<feed[r][2]>>
    /\ out[r] = <<>>

====
